---- MODULE Spec2Model ----
(***************************************************************************)
(* Poem annotation pipeline: the cache-backed fetcher (scraper.fetch_html), *)
(* the document parser (scraper.parse_poem), the append-only record store  *)
(* (storage.py, with the resume count of                                   *)
(* app.get_last_completed_index_for_coder) and the coding session that     *)
(* drives them (app.py).                                                   *)
(*                                                                         *)
(* Text is modelled as a sequence of one-character strings, so that the    *)
(* conversions the code applies (slugify, universal-newline reading,       *)
(* str.strip, '; '.join) are computed and not assumed.                     *)
(***************************************************************************)
EXTENDS Integers, Sequences, FiniteSets, TLC

VARIABLES
    \* ---- fetcher (scraper.py) ----
    cache,      \* html_cache/: cache path -> [exists, content, url]
    readFault,  \* environment: cache files cannot be read at the moment
    pc,         \* position of the fetch_html call: "idle", "attempt", "returned"
    call,       \* arguments of the running call: [url, use_cache]
    attempt,    \* loop variable of `for attempt in range(max_retries)`
    requests,   \* requests.get calls issued by the running call
    waits,      \* time.sleep arguments of the running call, in order
    slept,      \* time.sleep argument of the latest loop iteration (0: none)
    resp,       \* what the latest requests.get produced
    result,     \* what the call returns or raises
    prev,       \* the latest earlier call that returned content: [valid, url, content]
    \* ---- record store (storage.py) ----
    log,        \* coding_records/codings.jsonl: its newline-terminated lines
    tail,       \* text after the last newline of the log: <<>> or <<fragment>>
    csv,        \* coding_records/codings.csv: [exists, rows]
    crashes,    \* interrupted save_record calls so far
    ret,        \* the latest store operation, its arguments and its outcome
    savers,     \* app sessions inside save_record: session -> [pc, rec, records]
    \* ---- parser (scraper.parse_poem) ----
    doc,        \* the document handed to parse_poem
    parsed,     \* what parse_poem made of it: [done, raised, title, text]
    \* ---- coding session (app.py) ----
    session,    \* st.session_state
    last        \* the latest handler run: [action, outcome, escaped]

fetchVars == <<cache, readFault, pc, call, attempt, requests, waits, slept, resp, result, prev>>

storeVars == <<log, tail, csv, crashes, ret, savers>>

parseVars == <<doc, parsed>>

sessionVars == <<session, last>>

vars == <<fetchVars, storeVars, parseVars, sessionVars>>

(***************************************************************************)
(* Text helpers                                                            *)
(***************************************************************************)
RECURSIVE LStrip(_, _)
LStrip(s, cs) ==
    IF s # <<>> /\ s[1] \in cs THEN LStrip(Tail(s), cs) ELSE s

RECURSIVE RStrip(_, _)
RStrip(s, cs) ==
    IF s # <<>> /\ s[Len(s)] \in cs THEN RStrip(SubSeq(s, 1, Len(s) - 1), cs) ELSE s

\* str.strip(chars)
StripChars(s, cs) == RStrip(LStrip(s, cs), cs)

(***************************************************************************)
(* Fetcher: scraper.fetch_html                                             *)
(***************************************************************************)
\* Characters python-slugify keeps (after lower-casing); every other
\* character becomes a hyphen.
SlugAlnum == {"p", "q", "a"}

\* The URLs fetched. The first two differ only in a separator character.
Urls == { <<"p", "/", "a">>, <<"p", "_", "a">>, <<"q">> }

\* Page bodies a server may send; the first holds a CR LF line ending.
Pages == { <<"x", "CR", "LF">>, <<"y">> }

StatusCodes == {200, 204, 403, 404, 429, 503}

\* A retry loop of one more attempt.
MaxRetriesOneMore == 3 + 1

\* max_retries = 3
MaxRetries == 3

RECURSIVE Collapse(_)
Collapse(s) ==
    IF Len(s) <= 1 THEN s
    ELSE IF s[1] = "-" /\ s[2] = "-" THEN Collapse(Tail(s))
    ELSE <<s[1]>> \o Collapse(Tail(s))

\* slugify(url): runs of non-alphanumerics become one hyphen, hyphens are
\* stripped from both ends.
Slugify(u) ==
    StripChars(Collapse([i \in 1..Len(u) |-> IF u[i] \in SlugAlnum THEN u[i] ELSE "-"]),
               {"-"})

\* cache_dir / (slugify(url) + ".html")
CachePath(u) == Slugify(u) \o <<".html">>

CachePaths == {CachePath(u) : u \in Urls}

\* Path.read_text(encoding='utf-8'): text mode with universal newlines, so
\* CR LF and a lone CR are both read as LF.
RECURSIVE ReadText(_)
ReadText(s) ==
    IF s = <<>> THEN <<>>
    ELSE IF s[1] = "CR"
         THEN <<"LF">> \o ReadText(IF Len(s) >= 2 /\ s[2] = "LF"
                                   THEN SubSeq(s, 3, Len(s)) ELSE Tail(s))
         ELSE <<s[1]>> \o ReadText(Tail(s))

\* os.linesep on the platform the cache is written on (POSIX).
LineSep == <<"LF">>

\* Path.write_text(html, encoding='utf-8'): text mode, LF written as os.linesep.
RECURSIVE WriteText(_)
WriteText(s) ==
    IF s = <<>> THEN <<>>
    ELSE (IF s[1] = "LF" THEN LineSep ELSE <<s[1]>>) \o WriteText(Tail(s))

\* A cache file: whether it exists, its bytes, and the URL of the call that
\* wrote it last (<<>>: none).
NoEntry == [exists |-> FALSE, content |-> <<>>, url |-> <<>>]

\* How the cache write of line 61 may end: written, open() refused (file as
\* before), or the write failed after open() truncated the file.
WriteOutcomes == {"written", "refused", "truncated"}

CacheAfterWrite(entry, url, html, w) ==
    CASE w = "written"   -> [exists |-> TRUE, content |-> WriteText(html), url |-> url]
      [] w = "refused"   -> entry
      [] w = "truncated" -> [exists |-> TRUE, content |-> <<>>, url |-> url]

NoResult == [kind |-> "none", content |-> <<>>]
Returned(c) == [kind |-> "return", content |-> c]
Raised == [kind |-> "raise", content |-> <<>>]

NoResp == [kind |-> "none", status |-> 0, text |-> <<>>]

\* What one requests.get may produce: a response, or a RequestException
\* (connection error, timeout).
Outcomes ==
    {[kind |-> "response", status |-> 200, text |-> t] : t \in Pages}
    \cup {[kind |-> "response", status |-> s, text |-> <<>>] : s \in StatusCodes \ {200}}
    \cup {[kind |-> "exception", status |-> 0, text |-> <<>>]}

\* One loop iteration ends in: return (content), raise, or going on to the
\* next iteration after sleeping `wait` seconds (0: no sleep).
Go(d, w, c, wr) == [do |-> d, wait |-> w, content |-> c, write |-> wr]

\* The backoff with the attempts counted from 1.
BackoffWaitOneBased(a) == 2 ^ (a + 1) + 1

\* 2 ** attempt + 1
BackoffWait(a) == 2 ^ a + 1

\* OnException without the cache fallback of the final attempt.
OnExceptionNoFallback(a, entry, readable) ==
    IF a = MaxRetries - 1
    THEN Go("raise", 0, <<>>, FALSE)
    ELSE Go("next", 1, <<>>, FALSE)

\* except requests.RequestException as e: (lines 74-85)
OnException(a, entry, readable) ==
    IF a = MaxRetries - 1
    THEN IF entry.exists /\ readable
         THEN Go("return", 0, ReadText(entry.content), FALSE)
         ELSE Go("raise", 0, <<>>, FALSE)
    ELSE Go("next", 1, <<>>, FALSE)

\* response.raise_for_status(): HTTPError for 4xx and 5xx
RaisesForStatus(status) == status >= 400 /\ status < 600

\* The body of the retry loop for one outcome of requests.get (lines 54-85).
LoopBody(o, a, entry, readable) ==
    IF o.kind = "exception" THEN OnException(a, entry, readable)
    ELSE IF o.status = 200 THEN Go("return", 0, o.text, TRUE)
    ELSE IF o.status \in {429, 403, 503}
         THEN IF a < MaxRetries - 1 THEN Go("next", BackoffWait(a), <<>>, FALSE)
              ELSE Go("next", 0, <<>>, FALSE)
    ELSE IF RaisesForStatus(o.status)
         THEN OnException(a, entry, readable)   \* HTTPError is a RequestException
         ELSE Go("next", 0, <<>>, FALSE)

\* fetch_html whose cache read is not guarded: a read failure is raised.
FetchHtmlReadRaises(url, use_cache) ==
    /\ pc = "idle"
    /\ call' = [url |-> url, use_cache |-> use_cache]
    /\ attempt' = 0
    /\ requests' = 0
    /\ waits' = <<>>
    /\ slept' = 0
    /\ resp' = NoResp
    /\ IF use_cache /\ cache[CachePath(url)].exists
       THEN /\ pc' = "returned"
            /\ result' = IF readFault THEN Raised
                          ELSE Returned(ReadText(cache[CachePath(url)].content))
       ELSE /\ pc' = "attempt"
            /\ result' = NoResult
    /\ UNCHANGED <<cache, readFault, prev>>
    /\ UNCHANGED <<storeVars, parseVars, sessionVars>>

\* fetch_html(url, use_cache): entry, cache lookup (lines 30-43)
FetchHtml(url, use_cache) ==
    /\ pc = "idle"
    /\ call' = [url |-> url, use_cache |-> use_cache]
    /\ attempt' = 0
    /\ requests' = 0
    /\ waits' = <<>>
    /\ slept' = 0
    /\ resp' = NoResp
    /\ IF use_cache /\ cache[CachePath(url)].exists /\ ~readFault
       THEN /\ pc' = "returned"
            /\ result' = Returned(ReadText(cache[CachePath(url)].content))
       ELSE /\ pc' = "attempt"
            /\ result' = NoResult
    /\ UNCHANGED <<cache, readFault, prev>>
    /\ UNCHANGED <<storeVars, parseVars, sessionVars>>

\* One iteration of the retry loop (lines 53-87).
Request(o, w) ==
    /\ pc = "attempt"
    /\ LET path == CachePath(call.url)
           s == LoopBody(o, attempt, cache[path], ~readFault)
       IN /\ requests' = requests + 1
          /\ resp' = o
          /\ slept' = s.wait
          /\ waits' = IF s.wait > 0 THEN Append(waits, s.wait) ELSE waits
          /\ cache' = IF s.write
                      THEN [cache EXCEPT ![path] = CacheAfterWrite(cache[path], call.url, s.content, w)]
                      ELSE cache
          /\ IF s.do = "return"
             THEN /\ pc' = "returned"
                  /\ result' = Returned(s.content)
                  /\ attempt' = attempt
             ELSE IF s.do = "raise" \/ attempt = MaxRetries - 1
             THEN /\ pc' = "returned"      \* raise e, or the raise after the loop
                  /\ result' = Raised
                  /\ attempt' = attempt
             ELSE /\ pc' = "attempt"
                  /\ result' = NoResult
                  /\ attempt' = attempt + 1
    /\ UNCHANGED <<readFault, call, prev>>
    /\ UNCHANGED <<storeVars, parseVars, sessionVars>>

\* The caller receives the result.
FetchDone ==
    /\ pc = "returned"
    /\ pc' = "idle"
    /\ prev' = IF result.kind = "return"
               THEN [valid |-> TRUE, url |-> call.url, content |-> result.content]
               ELSE prev
    \* the call's locals are gone once it has returned
    /\ attempt' = 0
    /\ requests' = 0
    /\ waits' = <<>>
    /\ slept' = 0
    /\ resp' = NoResp
    /\ result' = NoResult
    /\ UNCHANGED <<cache, readFault, call>>
    /\ UNCHANGED <<storeVars, parseVars, sessionVars>>

\* Environment: cache files become unreadable, or readable again.
CacheFault ==
    /\ pc # "returned"
    /\ readFault' = ~readFault
    /\ UNCHANGED <<cache, pc, call, attempt, requests, waits, slept, resp, result, prev>>
    /\ UNCHANGED <<storeVars, parseVars, sessionVars>>

FetchInit ==
    /\ cache = [p \in CachePaths |-> NoEntry]
    /\ readFault = FALSE
    /\ pc = "idle"
    /\ call = [url |-> <<"q">>, use_cache |-> TRUE]
    /\ attempt = 0
    /\ requests = 0
    /\ waits = <<>>
    /\ slept = 0
    /\ resp = NoResp
    /\ result = NoResult
    /\ prev = [valid |-> FALSE, url |-> <<"q">>, content |-> <<>>]

(***************************************************************************)
(* Record store: storage.py                                                *)
(*                                                                         *)
(* None is <<>> and a present optional value v is <<v>>.  A log line is    *)
(* [head, kind, dict]: `head` is the unterminated text the line was        *)
(* appended to (<<>> when the log ended in a newline), `kind` says what    *)
(* the line's own text is ("object": json.dumps of a dict, "nonobject":    *)
(* JSON that is no object, "garbage": no JSON) and `dict` is that dict.    *)
(***************************************************************************)
\* Lines the log may hold (complete lines).
MaxLog == 3

\* Interrupted save_record calls.
MaxCrashes == 1

Whitespace == {" "}

\* A CodingRecord as app.py constructs it (keyword arguments of the call).
MkRecord(coder, url, complete, tags, moods, spent, timings) ==
    [timestamp_iso |-> "t", coder_id |-> coder, url |-> url,
     poem_uuid |-> <<"u">>, title |-> <<"T">>, author |-> <<>>,
     year |-> <<"1855">>, group |-> <<>>, author_url |-> <<>>,
     tags |-> tags, moods |-> moods, sentiment_x |-> 3, sentiment_y |-> -2,
     notes |-> "n", is_complete |-> complete, html_sha1 |-> "h",
     extraction_ok |-> TRUE, error |-> <<>>, sentiment |-> <<>>,
     time_spent_seconds |-> spent, stage_timings |-> timings]

\* The records saved in this model.
SampleRecords ==
    { MkRecord(<<"k">>, "A", TRUE, <<"love", "war">>, <<"joy">>, <<7>>, <<>>),
      MkRecord(<<"m">>, "A", FALSE, <<>>, <<>>, <<>>, <<>>),
      MkRecord(<<"k">>, "B", TRUE, <<"love">>, <<>>, <<5>>, << <<"poem", 5>> >>),
      MkRecord(<<"k">>, "A", FALSE, <<"war">>, <<"fear", "joy">>, <<>>, <<>>),
      MkRecord(<<"m">>, "C", FALSE, <<>>, <<>>, <<>>, <<>>) }

\* url arguments of the queries; "" is the empty string, which no record has.
UrlArgs == {"A", "B", ""}

\* coder_id arguments of the queries.
CoderArgs == { <<"k">>, <<" ", "k", " ">>, <<"m">>, <<>>, <<" ">> }

\* record_dict of save_record (lines 95-116): the keys that are written.
RecordDict(r) ==
    [timestamp_iso |-> r.timestamp_iso, coder_id |-> r.coder_id, url |-> r.url,
     poem_uuid |-> r.poem_uuid, title |-> r.title, author |-> r.author,
     year |-> r.year, group |-> r.group, author_url |-> r.author_url,
     tags |-> r.tags, moods |-> r.moods,
     sentiment_x |-> r.sentiment_x, sentiment_y |-> r.sentiment_y,
     notes |-> r.notes, is_complete |-> r.is_complete, html_sha1 |-> r.html_sha1,
     extraction_ok |-> r.extraction_ok, error |-> r.error,
     sentiment |-> r.sentiment]

\* dict.get(key, default)
Get(d, k, default) == IF k \in DOMAIN d THEN d[k] ELSE default

\* Value of a CodingRecord field that the constructor call does not pass.
FieldDefault == <<>>

\* _dict_to_coding_record (lines 13-43)
DictToCodingRecord(d) ==
    [timestamp_iso |-> d.timestamp_iso, coder_id |-> d.coder_id, url |-> d.url,
     poem_uuid |-> Get(d, "poem_uuid", <<>>), title |-> Get(d, "title", <<>>),
     author |-> Get(d, "author", <<>>), year |-> Get(d, "year", <<>>),
     group |-> Get(d, "group", <<>>), author_url |-> Get(d, "author_url", <<>>),
     tags |-> Get(d, "tags", <<>>), moods |-> Get(d, "moods", <<>>),
     sentiment_x |-> Get(d, "sentiment_x", 0), sentiment_y |-> Get(d, "sentiment_y", 0),
     notes |-> Get(d, "notes", ""), is_complete |-> Get(d, "is_complete", FALSE),
     html_sha1 |-> Get(d, "html_sha1", ""), extraction_ok |-> Get(d, "extraction_ok", TRUE),
     error |-> Get(d, "error", <<>>), sentiment |-> Get(d, "sentiment", <<>>),
     time_spent_seconds |-> FieldDefault, stage_timings |-> FieldDefault]

\* An unterminated text at the end of the log: json.dumps output that lacks
\* only its newline ("whole"), or text that is no JSON ("torn").
WholeFragment(d) == [part |-> "whole", dict |-> d]
TornFragment == [part |-> "torn", dict |-> <<>>]

ObjectLine(head, d) == [head |-> head, kind |-> "object", dict |-> d]
ForeignLines == { [head |-> <<>>, kind |-> "nonobject", dict |-> <<>>],
                  [head |-> <<>>, kind |-> "garbage", dict |-> <<>>] }

\* `for line in f`: the complete lines, then the unterminated text if any.
FileLines(lg, tl) ==
    IF tl = <<>> THEN lg
    ELSE Append(lg, [head |-> <<>>,
                     kind |-> IF tl[1].part = "whole" THEN "object" ELSE "garbage",
                     dict |-> tl[1].dict])

\* json.loads(line) succeeds: the line's own text is JSON and nothing
\* precedes it on the line.
IsJson(l) == l.head = <<>> /\ l.kind # "garbage"

\* json.loads(line) is a dict.
IsObject(l) == IsJson(l) /\ l.kind = "object"

NoRecords == [raised |-> FALSE, records |-> <<>>]

\* _read_jsonl_records (lines 46-74), with what its consumers do to an item:
\* a JSONDecodeError skips the line; the .get or [] of a JSON value that is
\* no dict raises (in the generator when a filter is set, in the consumer
\* otherwise) and ends the scan.
RECURSIVE ReadJsonlRecords(_, _, _)
ReadJsonlRecords(lines, url_filter, coder_filter) ==
    IF lines = <<>> THEN NoRecords
    ELSE LET l == Head(lines)
             rest == ReadJsonlRecords(Tail(lines), url_filter, coder_filter)
         IN IF ~IsJson(l) THEN rest
            ELSE IF ~IsObject(l) THEN [raised |-> TRUE, records |-> <<>>]
            ELSE IF url_filter # "" /\ Get(l.dict, "url", <<>>) # url_filter THEN rest
            ELSE IF coder_filter # <<>>
                    /\ Get(l.dict, "coder_id", <<>>) # StripChars(coder_filter, Whitespace)
                 THEN rest
            ELSE IF rest.raised THEN rest
            ELSE [raised |-> FALSE, records |-> <<l.dict>> \o rest.records]

Last(s) == s[Len(s)]

NoneValue == [raised |-> FALSE, value |-> <<>>]
RaisedValue == [raised |-> TRUE, value |-> <<>>]

\* latest_record_for_coder (lines 166-187)
LatestRecordForCoder(lines, url, coder_id) ==
    IF StripChars(coder_id, Whitespace) = <<>> THEN NoneValue
    ELSE LET r == ReadJsonlRecords(lines, url, coder_id)
         IN IF r.raised THEN RaisedValue
            ELSE IF r.records = <<>> THEN NoneValue
            ELSE [raised |-> FALSE, value |-> <<DictToCodingRecord(Last(r.records))>>]

\* latest_record_for (lines 190-207)
LatestRecordFor(lines, url) ==
    LET r == ReadJsonlRecords(lines, url, <<>>)
    IN IF r.raised THEN RaisedValue
       ELSE IF r.records = <<>> THEN NoneValue
       ELSE [raised |-> FALSE, value |-> <<DictToCodingRecord(Last(r.records))>>]

\* The log file exists once something was appended to it; a missing file
\* and a file without lines are read alike.
LogExists(lines) == lines # <<>>

\* The indices of the lines that hold a JSON value that is no dict.
NonDictLines(lines) == {i \in 1..Len(lines) : IsJson(lines[i]) /\ ~IsObject(lines[i])}

\* Statistics whose completed_records counts the complete records.
GetCodingStatsPerRecord(lines) ==
    LET r == ReadJsonlRecords(lines, "", <<>>)
    IN [raised |-> r.raised,
        value |-> [total_records |-> Len(r.records),
                   completed_records |->
                       Cardinality({i \in 1..Len(r.records) : r.records[i].is_complete}),
                   unique_urls |->
                       Cardinality({r.records[i].url : i \in 1..Len(r.records)})]]

\* Statistics whose total_records counts the URLs seen.
GetCodingStatsTotalPerUrl(lines) ==
    LET r == ReadJsonlRecords(lines, "", <<>>)
        urls_seen == {r.records[i].url : i \in 1..Len(r.records)}
    IN [raised |-> r.raised,
        value |-> [total_records |-> Cardinality(urls_seen),
                   completed_records |->
                       Cardinality({r.records[i].url :
                                      i \in {n \in 1..Len(r.records) : r.records[n].is_complete}}),
                   unique_urls |-> Cardinality(urls_seen)]]

\* get_coding_stats (lines 210-234)
GetCodingStats(lines) ==
    IF ~LogExists(lines)
    THEN [raised |-> FALSE,
          value |-> [total_records |-> 0, completed_records |-> 0, unique_urls |-> 0]]
    ELSE LET r == ReadJsonlRecords(lines, "", <<>>)
             counted == {i \in 1..Len(r.records) : Get(r.records[i], "url", "") # ""}
             urls_seen == {r.records[i].url : i \in counted}
             completed_urls ==
                 {r.records[i].url : i \in {n \in counted :
                                              Get(r.records[n], "is_complete", FALSE)}}
         IN IF r.raised THEN RaisedValue
            ELSE [raised |-> FALSE,
                  value |-> [total_records |-> Cardinality(counted),
                             completed_records |-> Cardinality(completed_urls),
                             unique_urls |-> Cardinality(urls_seen)]]

\* A resume count that counts the coder's complete records, not their URLs.
CountCompletedRecords(lines, coder_id) ==
    Cardinality({n \in 1..Len(lines) :
                   /\ IsObject(lines[n])
                   /\ Get(lines[n].dict, "coder_id", <<>>) = StripChars(coder_id, Whitespace)
                   /\ Get(lines[n].dict, "is_complete", FALSE)})

\* app.get_last_completed_index_for_coder (app.py lines 133-162): its own
\* scan of the log; any exception of the scan makes it return 0.
GetLastCompletedIndexForCoder(lines, coder_id) ==
    IF StripChars(coder_id, Whitespace) = <<>> THEN 0
    ELSE IF ~LogExists(lines) THEN 0
    ELSE IF NonDictLines(lines) # {} THEN 0
    ELSE Cardinality({lines[i].dict.url :
                        i \in {n \in 1..Len(lines) :
                                 /\ IsObject(lines[n])
                                 /\ Get(lines[n].dict, "coder_id", <<>>)
                                        = StripChars(coder_id, Whitespace)
                                 /\ Get(lines[n].dict, "is_complete", FALSE)}})

\* sep.join(items), as a sequence of text pieces
RECURSIVE Join(_, _)
Join(items, sep) ==
    IF items = <<>> THEN <<>>
    ELSE IF Len(items) = 1 THEN items
    ELSE <<items[1], sep>> \o Join(Tail(items), sep)

\* One row of the snapshot: the columns of update_csv_snapshot (lines
\* 143-161) for one record dict.
Row(d) ==
    [timestamp_iso |-> d.timestamp_iso, coder_id |-> d.coder_id, url |-> d.url,
     poem_uuid |-> d.poem_uuid, title |-> d.title, author |-> d.author,
     year |-> d.year, group |-> d.group, author_url |-> d.author_url,
     tags_joined |-> Join(Get(d, "tags", <<>>), "; "),
     moods_joined |-> Join(Get(d, "moods", <<>>), "; "),
     sentiment |-> d.sentiment, sentiment_x |-> d.sentiment_x,
     sentiment_y |-> d.sentiment_y, notes |-> d.notes,
     is_complete |-> d.is_complete, html_sha1 |-> d.html_sha1,
     extraction_ok |-> d.extraction_ok, error |-> d.error]

NoCsv == [exists |-> FALSE, rows |-> <<>>]

\* df.to_csv in append mode: the rows go after those of the old snapshot.
WriteCsvAppending(snapshot, records) ==
    [exists |-> TRUE,
     rows |-> snapshot.rows \o [i \in 1..Len(records) |-> Row(records[i])]]

\* df.to_csv(csv_path): the file is written anew from `records`.
WriteCsv(snapshot, records) ==
    [exists |-> TRUE, rows |-> [i \in 1..Len(records) |-> Row(records[i])]]

\* update_csv_snapshot (lines 125-163): the snapshot it leaves, and whether
\* it raised.
UpdateCsvSnapshot(lines, snapshot) ==
    IF ~LogExists(lines) THEN [raised |-> FALSE, csv |-> snapshot]
    ELSE LET r == ReadJsonlRecords(lines, "", <<>>)
         IN IF r.raised THEN [raised |-> TRUE, csv |-> snapshot]
            ELSE IF r.records # <<>>
                 THEN [raised |-> FALSE, csv |-> WriteCsv(snapshot, r.records)]
                 ELSE [raised |-> FALSE, csv |-> snapshot]

\* save_record with the log opened for writing instead of appending.
AppendLineTruncating(lg, tl, d) == <<ObjectLine(<<>>, d)>>

\* open(jsonl_path, 'a') and f.write(json.dumps(record_dict) + '\n'): the
\* text goes after whatever the file ends with.
AppendLine(lg, tl, d) == Append(lg, ObjectLine(tl, d))

\* The record of an operation: its name, its arguments (url, coder, rec),
\* whether it raised and what it returned.  `prior` is <<R>> when the
\* operation right before it was a save_record(R) that returned, and `len`
\* is the number of lines the log had when the operation began.
RetAfter(prior, op, url, coder, rec, raised, value) ==
    [op |-> op, url |-> url, coder |-> coder, rec |-> rec,
     raised |-> raised, value |-> value, prior |-> prior, len |-> Len(log)]

Ret(op, url, coder, rec, raised, value) ==
    RetAfter(<<>>, op, url, coder, rec, raised, value)


\* save_record(record) (lines 84-122)
SaveRecord(r) ==
    /\ Len(log) < MaxLog
    /\ LET lg == AppendLine(log, tail, RecordDict(r))
           u == UpdateCsvSnapshot(lg, csv)
       IN /\ log' = lg
          /\ tail' = <<>>
          /\ csv' = u.csv
          /\ ret' = Ret("save_record", "", <<>>, <<r>>, u.raised, <<>>)
    /\ UNCHANGED crashes
    /\ UNCHANGED <<savers, fetchVars, parseVars, sessionVars>>

\* An interrupted save_record that had opened the log for writing anew.
SaveRecordInterruptedRewriting(r, how) ==
    /\ crashes < MaxCrashes
    /\ Len(log) < MaxLog
    /\ crashes' = crashes + 1
    /\ log' = <<>>
    /\ tail' = <<TornFragment>>
    /\ ret' = Ret("save_record_interrupted", "", <<>>, <<r>>, TRUE, <<>>)
    /\ UNCHANGED csv
    /\ UNCHANGED <<savers, fetchVars, parseVars, sessionVars>>

\* save_record(record) cut short by a crash during or right after the write
\* of line 119: only a part of the text reached the file ("torn"), all of it
\* but the newline ("whole"), or the line without the snapshot update ("line").
SaveRecordInterrupted(r, how) ==
    /\ crashes < MaxCrashes
    /\ Len(log) < MaxLog
    /\ crashes' = crashes + 1
    /\ IF how = "line"
       THEN /\ log' = AppendLine(log, tail, RecordDict(r))
            /\ tail' = <<>>
       ELSE /\ log' = log
            /\ tail' = IF how = "whole" /\ tail = <<>>
                       THEN <<WholeFragment(RecordDict(r))>>
                       ELSE <<TornFragment>>
    /\ ret' = Ret("save_record_interrupted", "", <<>>, <<r>>, TRUE, <<>>)
    /\ UNCHANGED csv
    /\ UNCHANGED <<savers, fetchVars, parseVars, sessionVars>>

\* update_csv_snapshot() called on its own
UpdateCsv ==
    /\ LET u == UpdateCsvSnapshot(FileLines(log, tail), csv)
       IN /\ csv' = u.csv
          /\ ret' = Ret("update_csv_snapshot", "", <<>>, <<>>, u.raised, <<>>)
    /\ UNCHANGED <<log, tail, crashes>>
    /\ UNCHANGED <<savers, fetchVars, parseVars, sessionVars>>

QueryLatestForCoder(url, coder_id) ==
    /\ LET v == LatestRecordForCoder(FileLines(log, tail), url, coder_id)
       IN ret' = Ret("latest_record_for_coder", url, coder_id, <<>>, v.raised, v.value)
    /\ UNCHANGED <<log, tail, csv, crashes>>
    /\ UNCHANGED <<savers, fetchVars, parseVars, sessionVars>>

QueryLatestFor(url) ==
    /\ LET v == LatestRecordFor(FileLines(log, tail), url)
       IN ret' = RetAfter(IF ret.op = "save_record" /\ ~ret.raised THEN ret.rec ELSE <<>>,
                          "latest_record_for", url, <<>>, <<>>, v.raised, v.value)
    /\ UNCHANGED <<log, tail, csv, crashes>>
    /\ UNCHANGED <<savers, fetchVars, parseVars, sessionVars>>

QueryStats ==
    /\ LET v == GetCodingStats(FileLines(log, tail))
       IN ret' = Ret("get_coding_stats", "", <<>>, <<>>, v.raised, v.value)
    /\ UNCHANGED <<log, tail, csv, crashes>>
    /\ UNCHANGED <<savers, fetchVars, parseVars, sessionVars>>

QueryLastCompletedIndex(coder_id) ==
    /\ ret' = Ret("get_last_completed_index_for_coder", "", coder_id, <<>>, FALSE,
                  GetLastCompletedIndexForCoder(FileLines(log, tail), coder_id))
    /\ UNCHANGED <<log, tail, csv, crashes>>
    /\ UNCHANGED <<savers, fetchVars, parseVars, sessionVars>>

\* Environment: a line that save_record did not write is put into the log.
InjectLine(l) ==
    /\ Len(log) < MaxLog
    /\ tail = <<>>
    /\ log' = Append(log, l)
    /\ ret' = Ret("inject", "", <<>>, <<>>, FALSE, <<>>)
    /\ UNCHANGED <<tail, csv, crashes>>
    /\ UNCHANGED <<savers, fetchVars, parseVars, sessionVars>>

\* A snapshot file whose content does not come from the log.
CorruptCsv == [exists |-> TRUE, rows |-> <<[corrupt |-> TRUE]>>]

\* Environment: the snapshot file is damaged or replaced.
CorruptSnapshot ==
    /\ csv # CorruptCsv
    /\ csv' = CorruptCsv
    /\ ret' = Ret("corrupt", "", <<>>, <<>>, FALSE, <<>>)
    /\ UNCHANGED <<log, tail, crashes>>
    /\ UNCHANGED <<savers, fetchVars, parseVars, sessionVars>>

\* ---- save_record run by several app sessions at once ----
\* Every Streamlit session calls save_record in its own script run; the
\* calls share codings.jsonl and codings.csv and take no lock.  A call is
\* split at its file operations: the append (lines 118-119), the read of the
\* log inside update_csv_snapshot (lines 134-147) and df.to_csv (line 163).

Sessions == {1, 2}

ConcurrentRecords ==
    {r \in SampleRecords : r.is_complete /\ r.url \in {"A", "B"}}

NotSaving == [pc |-> "idle", rec |-> <<>>, records |-> <<>>]

\* open(jsonl_path, 'a'); f.write(line) (lines 118-119)
ConcurrentAppend(p, r) ==
    /\ savers[p].pc = "idle"
    /\ Len(log) < MaxLog
    /\ log' = AppendLine(log, tail, RecordDict(r))
    /\ tail' = <<>>
    /\ savers' = [savers EXCEPT ![p] = [pc |-> "appended", rec |-> <<r>>, records |-> <<>>]]
    /\ UNCHANGED <<csv, crashes, ret>>
    /\ UNCHANGED <<fetchVars, parseVars, sessionVars>>

\* update_csv_snapshot, lines 134-147: the records it reads from the log
ConcurrentRead(p) ==
    /\ savers[p].pc = "appended"
    /\ LET r == ReadJsonlRecords(FileLines(log, tail), "", <<>>)
       IN savers' = [savers EXCEPT ![p].pc = IF r.raised THEN "raised" ELSE "read",
                                   ![p].records = r.records]
    /\ UNCHANGED <<log, tail, csv, crashes, ret>>
    /\ UNCHANGED <<fetchVars, parseVars, sessionVars>>

\* update_csv_snapshot, lines 149-163: `if records:` df.to_csv(csv_path);
\* save_record returns.
ConcurrentWrite(p) ==
    /\ savers[p].pc = "read"
    /\ csv' = IF savers[p].records # <<>> THEN WriteCsv(csv, savers[p].records) ELSE csv
    /\ savers' = [savers EXCEPT ![p].pc = "returned"]
    /\ UNCHANGED <<log, tail, crashes, ret>>
    /\ UNCHANGED <<fetchVars, parseVars, sessionVars>>

\* The session's script run ends; its next Save starts from here.
ConcurrentDone(p) ==
    /\ savers[p].pc \in {"returned", "raised"}
    /\ savers' = [savers EXCEPT ![p] = NotSaving]
    /\ UNCHANGED <<log, tail, csv, crashes, ret>>
    /\ UNCHANGED <<fetchVars, parseVars, sessionVars>>

StoreInit ==
    /\ log = <<>>
    /\ tail = <<>>
    /\ csv = NoCsv
    /\ crashes = 0
    /\ ret = Ret("none", "", <<>>, <<>>, FALSE, <<>>)
    /\ savers = [p \in Sessions |-> NotSaving]

(***************************************************************************)
(* Parser: scraper.parse_poem                                              *)
(*                                                                         *)
(* A document is [body, blocks].  `body` is what the article body gives:   *)
(* <<>> when there is no poem article or no body field, else <<text>> with *)
(* the text extract_poem_text_from_body returns (empty, or without blank   *)
(* ends).  `blocks` are the application/ld+json scripts in document order. *)
(* A block is [kind, graph]: kind "empty" (script.string is None),         *)
(* "invalid" (no JSON), "scalar" (JSON that is no object) or "object";     *)
(* graph is <<>> (no '@graph' key) or <<[list, items]>>, `list` FALSE for  *)
(* a '@graph' that cannot be iterated.  An item is [dict, type, headline,  *)
(* description], `dict` FALSE for an entry that is no object.  The         *)
(* documents of this model have no h1 title.                               *)
(***************************************************************************)
\* JSON-LD scripts per document.
MaxBlocks == 2

\* Entries per '@graph' list.
MaxItems == 2

SeqsUpTo(S, n) == UNION {[1..k -> S] : k \in 0..n}

\* clean_text (utils.py): entities replaced, then str.strip()
CleanText(t) ==
    IF t = <<>> THEN <<>>
    ELSE StripChars([i \in 1..Len(t) |->
                        CASE t[i] = "&nbsp;" -> " "
                          [] t[i] = "&amp;" -> "&"
                          [] OTHER -> t[i]],
                    Whitespace \cup {"LF"})

\* text.replace('\\n', '\n'): a backslash followed by n becomes a newline
RECURSIVE ReplaceEscapedNewlines(_)
ReplaceEscapedNewlines(t) ==
    IF t = <<>> THEN <<>>
    ELSE IF Len(t) >= 2 /\ t[1] = "\\" /\ t[2] = "n"
         THEN <<"LF">> \o ReplaceEscapedNewlines(SubSeq(t, 3, Len(t)))
         ELSE <<t[1]>> \o ReplaceEscapedNewlines(Tail(t))

\* Descriptions and a headline as they stand in the JSON-LD.
Descriptions == { <<"d", "\\", "n", "e">>, <<" ", "f", "&nbsp;">> }
Headline == <<"H", "&amp;", "h">>

ScalarItem == [dict |-> FALSE, type |-> "", headline |-> <<>>, description |-> <<>>]

\* '@graph' entries: a non-object, a Person with a description, an Article
\* with a headline only, and an Article with each description.
GraphItems ==
    {ScalarItem}
    \cup {[dict |-> TRUE, type |-> "Person", headline |-> <<>>,
           description |-> << <<" ", "f", "&nbsp;">> >>]}
    \cup {[dict |-> TRUE, type |-> "Article", headline |-> <<Headline>>,
           description |-> <<>>]}
    \cup {[dict |-> TRUE, type |-> "Article", headline |-> <<>>, description |-> <<d>>] :
              d \in Descriptions}

Blocks ==
    {[kind |-> k, graph |-> <<>>] : k \in {"empty", "invalid", "scalar", "object"}}
    \cup {[kind |-> "object", graph |-> <<[list |-> FALSE, items |-> <<>>]>>]}
    \cup {[kind |-> "object", graph |-> <<[list |-> TRUE, items |-> its]>>] :
              its \in SeqsUpTo(GraphItems, MaxItems)}

Bodies == { <<>>, << <<>> >>, << <<"b", "LF", "c">> >> }

Docs == {[body |-> b, blocks |-> bs] : b \in Bodies, bs \in SeqsUpTo(Blocks, MaxBlocks)}

\* The entries the inner `for item in data['@graph']` runs over.  A block
\* whose json.loads raises (TypeError for None, JSONDecodeError), whose
\* value is no dict or has no '@graph', or whose '@graph' cannot be
\* iterated (TypeError) contributes none: the except clause goes on to the
\* next script.
ItemsOf(block) ==
    IF block.kind = "object" /\ block.graph # <<>> /\ block.graph[1].list
    THEN block.graph[1].items
    ELSE <<>>

\* One run of the inner loop: item.get on an entry that is no dict raises
\* AttributeError, which no except clause of parse_poem catches; the first
\* Article (with a description, if need_description) ends the loop.
RECURSIVE ScanItems(_, _)
ScanItems(items, need_description) ==
    IF items = <<>> THEN [kind |-> "miss", item |-> ScalarItem]
    ELSE LET item == Head(items)
         IN IF ~item.dict THEN [kind |-> "raise", item |-> item]
            ELSE IF item.type = "Article" /\ (need_description => item.description # <<>>)
                 THEN [kind |-> "hit", item |-> item]
                 ELSE ScanItems(Tail(items), need_description)

\* `not meta.title`
TitleUnset(title) == title = <<>> \/ title[1] = <<>>

\* The metadata loop over the scripts (lines 153-169).
RECURSIVE MetaLoop(_, _)
MetaLoop(blocks, title) ==
    IF blocks = <<>> THEN [raised |-> FALSE, title |-> title]
    ELSE LET r == ScanItems(ItemsOf(Head(blocks)), FALSE)
         IN IF r.kind = "raise" THEN [raised |-> TRUE, title |-> title]
            ELSE MetaLoop(Tail(blocks),
                          IF r.kind = "hit" /\ TitleUnset(title) /\ r.item.headline # <<>>
                          THEN <<CleanText(r.item.headline[1])>>
                          ELSE title)

\* The description loop over the scripts (lines 183-195): `break` leaves
\* the inner loop only, the outer loop goes on with the next script.
RECURSIVE DescriptionLoop(_, _)
DescriptionLoop(blocks, poem_text) ==
    IF blocks = <<>> THEN [raised |-> FALSE, text |-> poem_text]
    ELSE LET r == ScanItems(ItemsOf(Head(blocks)), TRUE)
         IN IF r.kind = "raise" THEN [raised |-> TRUE, text |-> poem_text]
            ELSE DescriptionLoop(Tail(blocks),
                                 IF r.kind = "hit"
                                 THEN ReplaceEscapedNewlines(CleanText(r.item.description[1]))
                                 ELSE poem_text)

NotParsed == [done |-> FALSE, raised |-> FALSE, title |-> <<>>, text |-> <<>>]

ParseRaised == [done |-> TRUE, raised |-> TRUE, title |-> <<>>, text |-> <<>>]

\* parse_poem(html, url) (lines 90-197)
ParsePoem(d) ==
    LET meta == MetaLoop(d.blocks, <<>>)
        poem_text == IF d.body = <<>> THEN <<>> ELSE d.body[1]
        fallback == DescriptionLoop(d.blocks, poem_text)
    IN IF meta.raised THEN ParseRaised
       ELSE IF StripChars(poem_text, Whitespace \cup {"LF"}) # <<>>
            THEN [done |-> TRUE, raised |-> FALSE, title |-> meta.title, text |-> poem_text]
       ELSE IF fallback.raised THEN ParseRaised
       ELSE [done |-> TRUE, raised |-> FALSE, title |-> meta.title, text |-> fallback.text]

\* parse_poem is applied to the document.
Parse ==
    /\ ~parsed.done
    /\ parsed' = ParsePoem(doc)
    /\ UNCHANGED doc
    /\ UNCHANGED <<fetchVars, storeVars, sessionVars>>

NoDoc == [body |-> <<>>, blocks |-> <<>>]

\* No document is being parsed.
ParseIdle ==
    /\ doc = NoDoc
    /\ parsed = NotParsed

\* Any document may be handed to parse_poem.
ParseInit ==
    /\ doc \in Docs
    /\ parsed = NotParsed

(***************************************************************************)
(* Coding session: app.py                                                  *)
(*                                                                         *)
(* One action is one script run that a widget event starts: the handler of *)
(* the event with every call it makes.  fetch_html is taken by its outcome *)
(* (it raises, or returns a page), parse_poem is ParsePoem.  `last` keeps  *)
(* the name of the handler, how its latest fetch_and_parse_current_poem    *)
(* call went, and whether an exception left the handler.                   *)
(***************************************************************************)
\* The url column of poems_df after load_poets_csv: no empty and no
\* duplicate URLs, index 0 .. n-1.
Poems == <<"A", "B">>

\* Values typed into the Coder ID field.
SessionCoders == { <<>>, <<"k">>, <<"m">> }

\* Pages fetch_html may return: one with body text, one without any text,
\* and one with a '@graph' entry that is no object.
SessionDocs ==
    { [body |-> << <<"b", "LF", "c">> >>, blocks |-> <<>>],
      [body |-> <<>>, blocks |-> <<>>],
      [body |-> <<>>,
       blocks |-> <<[kind |-> "object",
                     graph |-> <<[list |-> TRUE, items |-> <<ScalarItem>>]>>]>>] }

\* What a fetch_html call of the session may end in.
FetchOutcomes ==
    {[raised |-> TRUE, doc |-> NoDoc]}
    \cup {[raised |-> FALSE, doc |-> d] : d \in SessionDocs}

\* The stages of the staged coding panel, in order (line 822).
Stages == <<"poem", "themes", "mood", "chart", "notes">>

\* Tag and mood lists a coder may tick.
TagChoices == { <<>>, <<"love">> }
MoodChoices == { <<>>, <<"joy">> }

\* Points a click on the sentiment chart may give (sentiment_x, sentiment_y).
ChartPoints == { <<1, 2>> }

\* The URLs of the poems shown: that of current_poem_url, if any.
Shown(s) == {s.current_poem_url[i] : i \in 1..Len(s.current_poem_url)}

\* start_timer (lines 245-247).  A running timer is <<"t">>.
StartTimer(s) == [s EXCEPT !.timer_start_time = <<"t">>]

\* stop_timer (lines 249-255): the session it leaves; the elapsed time it
\* returns is ElapsedTime of the session before.
StopTimer(s) == [s EXCEPT !.timer_start_time = <<>>]

ElapsedTime(s) == IF s.timer_start_time = <<>> THEN 0 ELSE 5

\* start_stage_timer (lines 263-266).  A stage timer that runs is <<S>>,
\* S the URLs of the poems the session has shown since it was started.
StartStageTimer(s, stage_name) ==
    [s EXCEPT !.stage_start_time = <<Shown(s)>>, !.current_stage = stage_name]

\* stop_stage_timer (lines 268-275): stage_timings[current_stage] = elapsed.
\* An entry of stage_timings is the stage and the poems its time was
\* measured over.
StopStageTimer(s) ==
    IF s.stage_start_time = <<>> THEN s
    ELSE [s EXCEPT !.stage_timings =
                       {e \in @ : e.stage # s.current_stage}
                       \cup {[stage |-> s.current_stage, shown |-> s.stage_start_time[1]]},
                   !.stage_start_time = <<>>]

\* reset_stage_timings (lines 283-287)
ResetStageTimings(s) ==
    [s EXCEPT !.stage_timings = {}, !.current_stage = "poem", !.stage_start_time = <<>>]

\* fetch_and_parse_current_poem that restarts the stages only in "once" mode.
NewPoemUrlKeepingStage(s, url) ==
    IF s.current_poem_url = <<url>> THEN s
    ELSE LET t == [s EXCEPT !.current_poem_url = <<url>>]
         IN IF s.timing_method = "once"
            THEN StartStageTimer(ResetStageTimings(StartTimer(t)), "poem")
            ELSE [t EXCEPT !.stage_start_time =
                               IF @ = <<>> THEN @ ELSE <<@[1] \cup {url}>>]

\* fetch_and_parse_current_poem, lines 358-365: the poem to load is not the
\* one of current_poem_url.  A stage timer left running in "once" mode goes
\* on over the new poem.
NewPoemUrl(s, url) ==
    IF s.current_poem_url = <<url>> THEN s
    ELSE LET t == [s EXCEPT !.current_poem_url = <<url>>]
         IN IF s.timing_method = "once"
            THEN StartTimer([t EXCEPT !.stage_start_time =
                                          IF @ = <<>> THEN @ ELSE <<@[1] \cup {url}>>])
            ELSE StartStageTimer(ResetStageTimings(t), "poem")

\* The session after the `except Exception` branch of
\* fetch_and_parse_current_poem (lines 376-379).
PoemError(s, url) ==
    [NewPoemUrl(s, url) EXCEPT
              !.current_poem_meta = <<>>,
              !.current_poem_text = <<>>,
              !.extraction_error = <<"e">>]

\* fetch_and_parse_current_poem whose try block has no except clause.
FetchAndParseUnguarded(s, f) ==
    IF ~s.loaded THEN [session |-> s, outcome |-> "none", escaped |-> FALSE]
    ELSE IF s.current_index >= Len(Poems)
    THEN [session |-> s, outcome |-> "index_error", escaped |-> TRUE]
    ELSE LET url == Poems[s.current_index + 1]
             p == ParsePoem(f.doc)
             t == NewPoemUrl(s, url)
         IN IF f.raised
            THEN [session |-> t, outcome |-> "fetch_raised", escaped |-> TRUE]
            ELSE IF p.raised
            THEN [session |-> t, outcome |-> "parse_raised", escaped |-> TRUE]
            ELSE [session |-> [t EXCEPT !.current_poem_meta = <<[url |-> url, title |-> p.title]>>,
                                        !.current_poem_text = <<p.text>>,
                                        !.extraction_error = <<>>],
                  outcome |-> "ok", escaped |-> FALSE]

\* fetch_and_parse_current_poem (lines 351-379) with fetch_html ending in
\* f: the session it leaves, how the call went, and whether an exception
\* left it (the row lookup of line 356 stands before the try block).
FetchAndParseCurrentPoem(s, f) ==
    IF ~s.loaded THEN [session |-> s, outcome |-> "none", escaped |-> FALSE]
    ELSE IF s.current_index >= Len(Poems)
    THEN [session |-> s, outcome |-> "index_error", escaped |-> TRUE]
    ELSE LET url == Poems[s.current_index + 1]
             p == ParsePoem(f.doc)
         IN IF f.raised
            THEN [session |-> PoemError(s, url), outcome |-> "fetch_raised", escaped |-> FALSE]
            ELSE IF p.raised
            THEN [session |-> PoemError(s, url), outcome |-> "parse_raised", escaped |-> FALSE]
            ELSE [session |-> [NewPoemUrl(s, url) EXCEPT
                                        !.current_poem_meta = <<[url |-> url, title |-> p.title]>>,
                                        !.current_poem_text = <<p.text>>,
                                        !.extraction_error = <<>>],
                  outcome |-> "ok", escaped |-> FALSE]

\* What a Save handler did: how its save_record call ended, and the record
\* it built with what the session held for it (the poem text, the stage the
\* panel was in, and the poems the staged lists were ticked for).
NotSaved == [how |-> "none", record |-> <<>>, text |-> <<>>, stage |-> "poem",
             tags_of |-> {}, moods_of |-> {}]

LastRun(action, r) ==
    [action |-> action, outcome |-> r.outcome, escaped |-> r.escaped, save |-> NotSaved]

NoLoad(s) == [session |-> s, outcome |-> "none", escaped |-> FALSE]

\* main() renders the navigation and the panels: a non-blank coder ID and a
\* loaded poem list.
Rendered == StripChars(session.coder_id, Whitespace) # <<>> /\ session.loaded

\* render_sidebar (lines 385-433): the Coder ID field has a new value.
\* The first non-blank ID loads the poem list and its first poem; a changed
\* non-blank ID moves to the coder's resume index and loads that poem.
CoderIdInput(c, f1, f2) ==
    /\ c # session.coder_id
    /\ LET s0 == [session EXCEPT !.coder_id = c]
           first == IF ~s0.loaded
                    THEN FetchAndParseCurrentPoem(
                             [s0 EXCEPT !.loaded = TRUE, !.current_index = 0], f1)
                    ELSE NoLoad(s0)
           new_index == GetLastCompletedIndexForCoder(FileLines(log, tail), c)
           second == IF new_index # first.session.current_index
                     THEN FetchAndParseCurrentPoem(
                              [first.session EXCEPT !.current_index = new_index], f2)
                     ELSE first
           r == IF StripChars(c, Whitespace) = <<>> THEN NoLoad(s0) ELSE second
       IN /\ session' = r.session
          /\ last' = LastRun("coder", r)
    /\ UNCHANGED <<fetchVars, storeVars, parseVars>>

\* The Prev button (lines 684-687)
PrevButton(f) ==
    /\ Rendered
    /\ session.current_index > 0
    /\ LET r == FetchAndParseCurrentPoem(
                    [session EXCEPT !.current_index = session.current_index - 1], f)
       IN session' = r.session /\ last' = LastRun("prev", r)
    /\ UNCHANGED <<fetchVars, storeVars, parseVars>>

\* The Next button (lines 690-693)
NextButton(f) ==
    /\ Rendered
    /\ session.current_index < Len(Poems) - 1
    /\ LET r == FetchAndParseCurrentPoem(
                    [session EXCEPT !.current_index = session.current_index + 1], f)
       IN session' = r.session /\ last' = LastRun("next", r)
    /\ UNCHANGED <<fetchVars, storeVars, parseVars>>

Min(a, b) == IF a <= b THEN a ELSE b

\* The Skip button (lines 696-699)
SkipButton(f) ==
    /\ Rendered
    /\ LET r == FetchAndParseCurrentPoem(
                    [session EXCEPT !.current_index =
                                        Min(session.current_index + 1, Len(Poems) - 1)], f)
       IN session' = r.session /\ last' = LastRun("skip", r)
    /\ UNCHANGED <<fetchVars, storeVars, parseVars>>

\* The Reload button (lines 702-704)
ReloadButton(f) ==
    /\ Rendered
    /\ LET r == FetchAndParseCurrentPoem(session, f)
       IN session' = r.session /\ last' = LastRun("reload", r)
    /\ UNCHANGED <<fetchVars, storeVars, parseVars>>

\* main() got as far as the coding panel: the navigation is rendered, a
\* poem is loaded, and the row lookup of render_poem_display (line 739) did
\* not raise.
PanelShown ==
    /\ Rendered
    /\ session.current_poem_meta # <<>>
    /\ session.current_index < Len(Poems)

\* The timing method radio of the sidebar (lines 394-409)
TimingMethodRadio(m) ==
    /\ Rendered
    /\ m # session.timing_method
    /\ session' = IF m = "staged"
                  THEN StartStageTimer(
                           ResetStageTimings([session EXCEPT !.timing_method = m]), "poem")
                  ELSE [session EXCEPT !.timing_method = m]
    /\ last' = LastRun("timing", NoLoad(session))
    /\ UNCHANGED <<fetchVars, storeVars, parseVars>>

\* A tag checkbox of the full coding panel: the ticked tags are now t.
TagCheckbox(t) ==
    /\ PanelShown
    /\ session.timing_method = "once"
    /\ t # session.selected_tags
    /\ session' = [session EXCEPT !.selected_tags = t]
    /\ last' = LastRun("input", NoLoad(session))
    /\ UNCHANGED <<fetchVars, storeVars, parseVars>>

\* A mood checkbox of the full coding panel: the ticked moods are now m.
MoodCheckbox(m) ==
    /\ PanelShown
    /\ session.timing_method = "once"
    /\ m # session.selected_moods
    /\ session' = [session EXCEPT !.selected_moods = m]
    /\ last' = LastRun("input", NoLoad(session))
    /\ UNCHANGED <<fetchVars, storeVars, parseVars>>

\* A click on the sentiment chart (render_sentiment_2d, lines 647-654), in
\* the full panel or in the chart stage.
ChartClick(point) ==
    /\ PanelShown
    /\ session.timing_method = "staged" => session.current_stage = "chart"
    /\ <<session.sentiment_x, session.sentiment_y>> # point
    /\ session' = [session EXCEPT !.sentiment_x = point[1], !.sentiment_y = point[2]]
    /\ last' = LastRun("input", NoLoad(session))
    /\ UNCHANGED <<fetchVars, storeVars, parseVars>>

\* render_staged_coding_panel (lines 817-847) shows the panel of `stage`.
StagedPanel(stage) ==
    /\ PanelShown
    /\ session.timing_method = "staged"
    /\ session.current_stage = stage

\* st.session_state.staged_selected_tags / staged_selected_moods as the
\* themes and mood stages write them (lines 945, 1001): the list ticked,
\* with the poem it was ticked for.
StagedListFor(s, list) == <<[url |-> s.current_poem_meta[1].url, list |-> list]>>

\* st.session_state.get('staged_selected_tags', [])
StagedList(entry) == IF entry = <<>> THEN <<>> ELSE entry[1].list

StagedListOf(entry) == {entry[i].url : i \in 1..Len(entry)}

\* "Finished Reading" (lines 853-856); the rerun renders the themes stage
\* with the tags t ticked.
PoemStageDone(t) ==
    /\ StagedPanel("poem")
    /\ session' = [StartStageTimer(StopStageTimer(session), "themes") EXCEPT
                       !.staged_selected_tags = StagedListFor(session, t)]
    /\ last' = LastRun("stage", NoLoad(session))
    /\ UNCHANGED <<fetchVars, storeVars, parseVars>>

\* A tag checkbox of the themes stage (lines 899-945)
StagedTagCheckbox(t) ==
    /\ StagedPanel("themes")
    /\ StagedList(session.staged_selected_tags) # t
    /\ session' = [session EXCEPT !.staged_selected_tags = StagedListFor(session, t)]
    /\ last' = LastRun("input", NoLoad(session))
    /\ UNCHANGED <<fetchVars, storeVars, parseVars>>

\* "Finished Themes" (lines 953-956); the rerun renders the mood stage with
\* the moods m ticked.
ThemesStageDone(m) ==
    /\ StagedPanel("themes")
    /\ session' = [StartStageTimer(StopStageTimer(session), "mood") EXCEPT
                       !.staged_selected_moods = StagedListFor(session, m)]
    /\ last' = LastRun("stage", NoLoad(session))
    /\ UNCHANGED <<fetchVars, storeVars, parseVars>>

\* A mood checkbox of the mood stage (lines 979-1001)
StagedMoodCheckbox(m) ==
    /\ StagedPanel("mood")
    /\ StagedList(session.staged_selected_moods) # m
    /\ session' = [session EXCEPT !.staged_selected_moods = StagedListFor(session, m)]
    /\ last' = LastRun("input", NoLoad(session))
    /\ UNCHANGED <<fetchVars, storeVars, parseVars>>

\* "Finished Mood" (lines 1009-1012)
MoodStageDone ==
    /\ StagedPanel("mood")
    /\ session' = StartStageTimer(StopStageTimer(session), "chart")
    /\ last' = LastRun("stage", NoLoad(session))
    /\ UNCHANGED <<fetchVars, storeVars, parseVars>>

\* "Finished Chart" (lines 1028-1031)
ChartStageDone ==
    /\ StagedPanel("chart")
    /\ session' = StartStageTimer(StopStageTimer(session), "notes")
    /\ last' = LastRun("stage", NoLoad(session))
    /\ UNCHANGED <<fetchVars, storeVars, parseVars>>

\* How the save_record call of a Save may end: it returns; open or write
\* raises and nothing reaches the log; or the line is appended and
\* update_csv_snapshot raises.
SaveOutcomes == {"saved", "write_failed", "snapshot_failed"}

\* The session after the statements that follow a save_record call that
\* returned (lines 1322-1349 of the full panel, 1097-1108 of the notes
\* stage): the inputs are cleared for the next poem.
AfterSaved(s) ==
    IF s.timing_method = "staged"
    THEN [StartStageTimer(ResetStageTimings(s), "poem") EXCEPT
              !.staged_selected_tags = <<>>, !.staged_selected_moods = <<>>,
              !.sentiment_x = 0, !.sentiment_y = 0]
    ELSE [s EXCEPT !.selected_tags = <<>>, !.selected_moods = <<>>,
                   !.sentiment_x = 0, !.sentiment_y = 0]

\* The session after the same handler with the statements that follow
\* save_record placed outside the try block.
AfterSavedAlways(s, raised) == AfterSaved(s)

\* The session after the try block of the Save handler: the statements
\* after save_record run when it returned; the except branch (lines
\* 1359-1360, 1118-1119) only reports the error.
AfterSaveTried(s, raised) == IF raised THEN s ELSE AfterSaved(s)

\* The Save button of the coding panel (lines 1282-1360; 1052-1119 in the
\* notes stage of staged mode).  The timer is stopped, the record is built
\* from the session and saved, and after a save that returned the session
\* moves on to the next poem.
SaveButton(how, f) ==
    /\ PanelShown
    /\ session.timing_method = "staged" => session.current_stage = "notes"
    /\ Len(log) < MaxLog
    /\ LET staged == session.timing_method = "staged"
           s1 == IF staged THEN StopStageTimer(session) ELSE StopTimer(session)
           record == [MkRecord(StripChars(session.coder_id, Whitespace),
                               session.current_poem_meta[1].url, TRUE,
                               IF staged THEN StagedList(session.staged_selected_tags)
                               ELSE session.selected_tags,
                               IF staged THEN StagedList(session.staged_selected_moods)
                               ELSE session.selected_moods,
                               IF staged THEN <<5 * Cardinality(s1.stage_timings)>>
                               ELSE <<ElapsedTime(session)>>,
                               IF staged THEN <<s1.stage_timings>> ELSE FieldDefault)
                     EXCEPT !.sentiment_x = session.sentiment_x,
                            !.sentiment_y = session.sentiment_y,
                            !.extraction_ok = (session.extraction_error = <<>>),
                            !.error = session.extraction_error]
           lg == IF how = "write_failed" THEN log
                 ELSE AppendLine(log, tail, RecordDict(record))
           u == IF how = "saved" THEN UpdateCsvSnapshot(lg, csv)
                ELSE [raised |-> TRUE, csv |-> csv]
           s2 == AfterSaveTried(s1, u.raised)
           r == IF ~u.raised /\ session.current_index < Len(Poems) - 1
                THEN FetchAndParseCurrentPoem(
                         [s2 EXCEPT !.current_index = session.current_index + 1], f)
                ELSE NoLoad(s2)
       IN /\ log' = lg
          /\ tail' = IF how = "write_failed" THEN tail ELSE <<>>
          /\ csv' = u.csv
          /\ session' = r.session
          /\ last' = [LastRun("save", r) EXCEPT
                          !.save = [how |-> IF u.raised /\ how = "saved" THEN "snapshot_failed"
                                            ELSE how,
                                    record |-> <<record>>,
                                    text |-> session.current_poem_text,
                                    stage |-> session.current_stage,
                                    tags_of |-> StagedListOf(session.staged_selected_tags),
                                    moods_of |-> StagedListOf(session.staged_selected_moods)]]
    /\ UNCHANGED <<crashes, ret, savers>>
    /\ UNCHANGED <<fetchVars, parseVars>>

\* initialize_session_state (lines 165-209)
SessionInit ==
    /\ session = [coder_id |-> <<>>, loaded |-> FALSE, current_index |-> 0,
                  current_poem_url |-> <<>>, current_poem_meta |-> <<>>,
                  current_poem_text |-> <<>>, extraction_error |-> <<>>,
                  sentiment_x |-> 0, sentiment_y |-> 0,
                  selected_tags |-> <<>>, selected_moods |-> <<>>,
                  timer_start_time |-> <<>>, timing_method |-> "once",
                  current_stage |-> "poem", stage_start_time |-> <<>>,
                  stage_timings |-> {},
                  staged_selected_tags |-> <<>>, staged_selected_moods |-> <<>>]
    /\ last = LastRun("none", [outcome |-> "none", escaped |-> FALSE])

(***************************************************************************)
(* Specifications                                                          *)
(***************************************************************************)
Init == FetchInit /\ StoreInit /\ ParseIdle /\ SessionInit

FetchNext ==
    \/ \E u \in Urls, c \in BOOLEAN : FetchHtml(u, c)
    \/ \E o \in Outcomes, w \in WriteOutcomes : Request(o, w)
    \/ FetchDone
    \/ CacheFault

\* The operations of the store, each running to completion.
StoreNext ==
    \/ \E r \in SampleRecords : SaveRecord(r)
    \/ UpdateCsv
    \/ \E u \in UrlArgs, c \in CoderArgs : QueryLatestForCoder(u, c)
    \/ \E u \in UrlArgs : QueryLatestFor(u)
    \/ QueryStats
    \/ \E c \in CoderArgs : QueryLastCompletedIndex(c)

\* The records of one coder for one poem: a draft and a complete coding.
CrashRecords == {r \in SampleRecords : r.coder_id = <<"k">> /\ r.url = "A"}

\* Saves that a crash may cut short, the snapshot update and the lookup of
\* a URL's latest record.
CrashNext ==
    \/ \E r \in CrashRecords : SaveRecord(r)
    \/ \E r \in CrashRecords, how \in {"torn", "whole", "line"} :
           SaveRecordInterrupted(r, how)
    \/ UpdateCsv
    \/ \E u \in UrlArgs : QueryLatestFor(u)

InjectNext ==
    \/ StoreNext
    \/ \E l \in ForeignLines : InjectLine(l)
    \/ CorruptSnapshot

\* URLs with a cache file each: the retry loop runs the same for every URL.
FairUrls == { <<"p", "/", "a">>, <<"q">> }

\* The fetcher, with the server and the cache files as environment.
FetchSpec == Init /\ [][FetchNext]_vars

\* The fetcher with a retry loop that keeps running: requests.get returns or
\* raises within its timeout, and the sleeps are finite.
FairFetchNext ==
    \/ \E u \in FairUrls, c \in BOOLEAN : FetchHtml(u, c)
    \/ \E o \in Outcomes, w \in WriteOutcomes : Request(o, w)
    \/ FetchDone
    \/ CacheFault

FairFetchSpec ==
    /\ Init
    /\ [][FairFetchNext]_vars
    /\ WF_vars(\E o \in Outcomes, w \in WriteOutcomes : Request(o, w))

\* The record store as the program drives it.
Spec == Init /\ [][StoreNext]_vars

\* The record store with save_record calls that a crash may interrupt.
CrashSpec == Init /\ [][CrashNext]_vars

\* The record store with a log and a snapshot that others may also write.
InjectSpec == Init /\ [][InjectNext]_vars

ParseNext == Parse

SessionNext ==
    \/ \E c \in SessionCoders :
           \E f1 \in (IF session.loaded THEN {CHOOSE f \in FetchOutcomes : f.raised}
                       ELSE FetchOutcomes), f2 \in FetchOutcomes :
               CoderIdInput(c, f1, f2)
    \/ \E f \in FetchOutcomes : PrevButton(f)
    \/ \E f \in FetchOutcomes : NextButton(f)
    \/ \E f \in FetchOutcomes : SkipButton(f)
    \/ \E f \in FetchOutcomes : ReloadButton(f)
    \/ \E how \in SaveOutcomes, f \in FetchOutcomes : SaveButton(how, f)

\* One coding session over the poem list and the record store.
SessionSpec == Init /\ [][SessionNext]_vars

\* Coder IDs and fetch outcomes of the sessions that fill in the panel.
CodingCoders == { <<>>, <<"k">> }

CodingFetches == {f \in FetchOutcomes : f.raised \/ f.doc.body # <<>>}

\* The log has no record of the session's coder for the poem shown.
NotYetCoded ==
    /\ session.current_poem_meta # <<>>
    /\ \A i \in 1..Len(log) :
           ~(/\ log[i].dict.coder_id = StripChars(session.coder_id, Whitespace)
             /\ log[i].dict.url = session.current_poem_meta[1].url)

\* The ways a Save may end in the sessions that fill in the panel, where the
\* coder saves a poem that has no record yet.
FirstSaveOutcomes == IF NotYetCoded THEN SaveOutcomes ELSE {}

\* A coding session with the full panel: the coder ticks tags and moods and
\* clicks on the chart between the loads and the saves.
CodingNext ==
    \/ \E c \in CodingCoders, f1 \in CodingFetches, f2 \in CodingFetches :
           CoderIdInput(c, f1, f2)
    \/ \E f \in CodingFetches : PrevButton(f)
    \/ \E f \in CodingFetches : NextButton(f)
    \/ \E f \in CodingFetches : SkipButton(f)
    \/ \E f \in CodingFetches : ReloadButton(f)
    \/ \E t \in TagChoices : TagCheckbox(t)
    \/ \E m \in MoodChoices : MoodCheckbox(m)
    \/ \E point \in ChartPoints \cup {<<0, 0>>} : ChartClick(point)
    \/ \E how \in FirstSaveOutcomes, f \in CodingFetches : SaveButton(how, f)

CodingSpec == Init /\ [][CodingNext]_vars

\* A coding session that may switch to staged timing and walk the stages.
StagedNext ==
    \/ \E c \in CodingCoders \ {<<>>}, f1 \in CodingFetches, f2 \in CodingFetches :
           CoderIdInput(c, f1, f2)
    \/ \E f \in CodingFetches : PrevButton(f)
    \/ \E f \in CodingFetches : NextButton(f)
    \/ \E f \in CodingFetches : ReloadButton(f)
    \/ \E m \in {"once", "staged"} : TimingMethodRadio(m)
    \/ \E t \in TagChoices : PoemStageDone(t)
    \/ \E t \in TagChoices : StagedTagCheckbox(t)
    \/ \E m \in MoodChoices : ThemesStageDone(m)
    \/ \E m \in MoodChoices : StagedMoodCheckbox(m)
    \/ MoodStageDone
    \/ ChartStageDone
    \/ \E how \in FirstSaveOutcomes, f \in CodingFetches : SaveButton(how, f)

StagedSpec == Init /\ [][StagedNext]_vars

\* Two app sessions saving at the same time.
ConcurrentNext ==
    \/ \E p \in Sessions, r \in ConcurrentRecords : ConcurrentAppend(p, r)
    \/ \E p \in Sessions : ConcurrentRead(p)
    \/ \E p \in Sessions : ConcurrentWrite(p)
    \/ \E p \in Sessions : ConcurrentDone(p)

ConcurrentSpec == Init /\ [][ConcurrentNext]_vars

\* Any document of Docs is about to be parsed; nothing else is going on.
ParseSpecInit == FetchInit /\ StoreInit /\ SessionInit /\ ParseInit

\* parse_poem over the documents of Docs.
ParseSpec == ParseSpecInit /\ [][ParseNext]_vars

(***************************************************************************)
(* Properties of the record store                                          *)
(***************************************************************************)
IsPrefix(s, t) == Len(s) <= Len(t) /\ \A i \in 1..Len(s) : t[i] = s[i]

\* The record dicts of the lines that parse as a record, in log order.
RECURSIVE ParsedRecords(_)
ParsedRecords(lines) ==
    IF lines = <<>> THEN <<>>
    ELSE (IF Head(lines).head = <<>> /\ Head(lines).kind = "object"
          THEN <<Head(lines).dict>> ELSE <<>>) \o ParsedRecords(Tail(lines))

CurrentLines == FileLines(log, tail)

ReadOnlyOps == {"update_csv_snapshot", "latest_record_for_coder", "latest_record_for",
                "get_coding_stats", "get_last_completed_index_for_coder"}

\* C2: the log before any operation is a prefix of the log after it;
\* save_record makes it exactly one line longer; update_csv_snapshot and
\* the four queries leave it as it was.
C2_LogIsAppendOnly ==
    [][ /\ IsPrefix(log, log')
        /\ (ret'.op = "save_record" => Len(log') = Len(log) + 1 /\ tail' = <<>>)
        /\ (ret'.op \in ReadOnlyOps => log' = log /\ tail' = tail)
      ]_vars

\* C2 witness: a save_record has returned with earlier lines in the log.
C2_Witness == ret.op = "save_record" /\ ~ret.raised /\ Len(log) >= 2

\* The value a query is to return when record dict d is the one it finds:
\* a CodingRecord that holds d's value under each of d's keys.
Holds(value, d) ==
    /\ value # <<>>
    /\ \A k \in DOMAIN d : value[1][k] = d[k]

\* C3: latest_record_for_coder(url, coder_id) returns the last record of
\* the log whose url is url and whose coder_id is the trimmed coder_id, and
\* None when there is no such record or the trimmed coder_id is empty.
C3_LatestForCoder ==
    ret.op = "latest_record_for_coder" =>
        LET recs == ParsedRecords(CurrentLines)
            c == StripChars(ret.coder, Whitespace)
            hits == {i \in 1..Len(recs) : recs[i].url = ret.url /\ recs[i].coder_id = c}
        IN /\ ~ret.raised
           /\ IF c = <<>> \/ hits = {}
              THEN ret.value = <<>>
              ELSE Holds(ret.value, recs[CHOOSE i \in hits : \A j \in hits : j <= i])

\* C4: save_record(R) followed at once by latest_record_for(R.url) returns
\* a record equal to R in every field.
C4_RoundTrip ==
    (ret.op = "latest_record_for" /\ ret.prior # <<>> /\ ret.url = ret.prior[1].url)
        => (~ret.raised /\ ret.value = ret.prior)

\* The lines of the log that are records, with every malformed line left out.
WellFormedLines == SelectSeq(CurrentLines, IsObject)

\* C5: with malformed lines in the log, update_csv_snapshot and the four
\* queries do not raise and give what they give on the log without those
\* lines.
C5_MalformedLinesSkipped ==
    /\ ret.op \in ReadOnlyOps => ~ret.raised
    /\ ret.op = "latest_record_for_coder" =>
           ret.value = LatestRecordForCoder(WellFormedLines, ret.url, ret.coder).value
    /\ ret.op = "latest_record_for" =>
           ret.value = LatestRecordFor(WellFormedLines, ret.url).value
    /\ ret.op = "get_coding_stats" =>
           ret.value = GetCodingStats(WellFormedLines).value
    /\ ret.op = "get_last_completed_index_for_coder" =>
           ret.value = GetLastCompletedIndexForCoder(WellFormedLines, ret.coder)
    /\ ret.op = "update_csv_snapshot" =>
           csv = UpdateCsvSnapshot(WellFormedLines, csv).csv

\* `joined` is `items` with "; " between neighbours.
IsJoined(joined, items) ==
    /\ Len(joined) = IF items = <<>> THEN 0 ELSE 2 * Len(items) - 1
    /\ \A i \in 1..Len(items) : joined[2 * i - 1] = items[i]
    /\ \A i \in 1..Len(items) - 1 : joined[2 * i] = "; "

\* `row` is the flat projection of record dict d.
IsRowOf(row, d) ==
    /\ \A c \in DOMAIN row \ {"tags_joined", "moods_joined"} : row[c] = d[c]
    /\ DOMAIN d \ {"tags", "moods"} \subseteq DOMAIN row
    /\ IsJoined(row.tags_joined, d.tags)
    /\ IsJoined(row.moods_joined, d.moods)

\* The snapshot holds one row per record of the log, in log order, and
\* nothing else.
SnapshotMatchesLog ==
    LET recs == ParsedRecords(CurrentLines)
    IN /\ Len(csv.rows) = Len(recs)
       /\ \A i \in 1..Len(recs) :
              "url" \in DOMAIN csv.rows[i] /\ IsRowOf(csv.rows[i], recs[i])

C7_SnapshotFromLogAlone ==
    ret.op = "update_csv_snapshot" =>
        /\ SnapshotMatchesLog
        /\ UpdateCsvSnapshot(CurrentLines, csv).csv = csv

\* The URLs that have a record of coder c with is_complete true.
CompletedUrlsOf(recs, c) ==
    {recs[i].url : i \in {n \in 1..Len(recs) : recs[n].coder_id = c /\ recs[n].is_complete}}

\* C14: get_last_completed_index_for_coder(coder_id) is the number of
\* distinct URLs with a complete record of the trimmed coder_id, and one
\* more complete record for a URL the coder has completed does not change it.
C14_ResumeCountDistinctUrls ==
    LET recs == ParsedRecords(CurrentLines)
    IN /\ ret.op = "get_last_completed_index_for_coder" =>
              ret.value = Cardinality(CompletedUrlsOf(recs, StripChars(ret.coder, Whitespace)))
       /\ \A r \in SampleRecords, c \in CoderArgs :
              (/\ r.is_complete
               /\ r.coder_id = StripChars(c, Whitespace)
               /\ r.url \in CompletedUrlsOf(recs, r.coder_id))
              => GetLastCompletedIndexForCoder(AppendLine(log, tail, RecordDict(r)), c)
                     = GetLastCompletedIndexForCoder(CurrentLines, c)

\* C14 witness: the count is 1 for a coder with two complete records of
\* one URL.
C14_Witness ==
    /\ ret.op = "get_last_completed_index_for_coder"
    /\ ret.value = 1
    /\ LET recs == ParsedRecords(CurrentLines)
       IN Cardinality({n \in 1..Len(recs) :
                         /\ recs[n].coder_id = StripChars(ret.coder, Whitespace)
                         /\ recs[n].is_complete}) = 2

\* C15: get_coding_stats gives completed_records = the number of distinct
\* URLs with a complete record, and unique_urls = the number of distinct
\* URLs of all records.
C15_StatsDistinctUrls ==
    ret.op = "get_coding_stats" =>
        LET recs == ParsedRecords(CurrentLines)
        IN /\ ~ret.raised
           /\ ret.value.completed_records =
                  Cardinality({recs[i].url : i \in {n \in 1..Len(recs) : recs[n].is_complete}})
           /\ ret.value.unique_urls =
                  Cardinality({recs[i].url : i \in 1..Len(recs)})

\* C15 witness: complete records for A and B and an incomplete one for C
\* give completed_records = 2 and unique_urls = 3.
C15_Witness ==
    /\ ret.op = "get_coding_stats"
    /\ LET recs == ParsedRecords(CurrentLines)
       IN /\ Len(recs) = 3
          /\ {<<recs[i].url, recs[i].is_complete>> : i \in 1..3}
                = {<<"A", TRUE>>, <<"B", TRUE>>, <<"C", FALSE>>}
    /\ ret.value.completed_records = 2
    /\ ret.value.unique_urls = 3

\* C16: latest_record_for(url) returns the last record of the log whose
\* url is the argument, whatever its coder, and None when no record has
\* that url; the empty string is an argument like any other.
C16_LatestForUrl ==
    ret.op = "latest_record_for" =>
        LET recs == ParsedRecords(CurrentLines)
            hits == {i \in 1..Len(recs) : recs[i].url = ret.url}
        IN /\ ~ret.raised
           /\ IF hits = {}
              THEN ret.value = <<>>
              ELSE Holds(ret.value, recs[CHOOSE i \in hits : \A j \in hits : j <= i])

C25_FailedSaveAddsNoLine ==
    (ret.op = "save_record" /\ ret.raised) => (Len(log) = ret.len /\ tail = <<>>)

\* The last line of the log was appended to an unterminated fragment.
SavedAfterFragment == log # <<>> /\ Last(log).head # <<>>

\* C26: a save_record(R) that returned after an interrupted save had left
\* an unterminated fragment at the end of the log has put R's row into the
\* snapshot, and latest_record_for(R.url) right after it returns R.
C26_SaveAfterPartialLine ==
    /\ (ret.op = "save_record" /\ ~ret.raised /\ SavedAfterFragment)
           => \E i \in 1..Len(csv.rows) :
                  "url" \in DOMAIN csv.rows[i] /\ IsRowOf(csv.rows[i], RecordDict(ret.rec[1]))
    /\ (ret.op = "latest_record_for" /\ ret.prior # <<>> /\ ret.url = ret.prior[1].url
           /\ SavedAfterFragment)
           => (~ret.raised /\ Holds(ret.value, RecordDict(ret.prior[1])))

\* No session is inside save_record.
NoSaveRunning == \A p \in Sessions : savers[p].pc \in {"idle", "returned"}

\* C27: when the save_record calls of two sessions have both returned, the
\* snapshot has a row for every record of the log, whatever the order of
\* their appends, log reads and snapshot writes.
C27_ConcurrentSavesKeepRows ==
    NoSaveRunning =>
        \A i \in 1..Len(ParsedRecords(CurrentLines)) :
            \E j \in 1..Len(csv.rows) :
                "url" \in DOMAIN csv.rows[j] /\ IsRowOf(csv.rows[j], ParsedRecords(CurrentLines)[i])

\* C28: get_coding_stats gives completed_records <= unique_urls <=
\* total_records, and total_records is the number of parseable records of
\* the log.
C28_StatsOrdered ==
    ret.op = "get_coding_stats" =>
        /\ ~ret.raised
        /\ ret.value.completed_records <= ret.value.unique_urls
        /\ ret.value.unique_urls <= ret.value.total_records
        /\ ret.value.total_records = Len(ParsedRecords(CurrentLines))

\* C28 witness: the statistics of a log of three records of which two are
\* for one URL: fewer URLs than records, fewer completed URLs than URLs.
C28_Witness ==
    /\ ret.op = "get_coding_stats"
    /\ ret.value.total_records = 3
    /\ ret.value.unique_urls = 2
    /\ ret.value.completed_records = 1

(***************************************************************************)
(* Properties of the parser                                                *)
(***************************************************************************)
\* C18: parse_poem does not raise, whatever the document: malformed
\* JSON-LD blocks (empty script, invalid JSON, non-object top level,
\* '@graph' entries that are no objects) are skipped.
C18_ParseNeverRaises == parsed.done => ~parsed.raised

\* The Article descriptions of a document, in document order.
RECURSIVE ArticleDescriptions(_)
ArticleDescriptions(items) ==
    IF items = <<>> THEN <<>>
    ELSE (IF Head(items).dict /\ Head(items).type = "Article"
             /\ Head(items).description # <<>>
          THEN Head(items).description ELSE <<>>) \o ArticleDescriptions(Tail(items))

RECURSIVE AllItems(_)
AllItems(blocks) ==
    IF blocks = <<>> THEN <<>> ELSE ItemsOf(Head(blocks)) \o AllItems(Tail(blocks))

\* C19: when parse_poem returns, the text is the body text if that is not
\* empty; else it is the first Article description of the document, in
\* document order over all blocks (escaped newlines made real), and empty
\* when there is none.
C19_FirstDescriptionWins ==
    (parsed.done /\ ~parsed.raised) =>
        LET body == IF doc.body = <<>> THEN <<>> ELSE doc.body[1]
            descs == ArticleDescriptions(AllItems(doc.blocks))
        IN parsed.text = IF body # <<>> THEN body
                         ELSE IF descs = <<>> THEN <<>>
                         ELSE ReplaceEscapedNewlines(CleanText(descs[1]))

(***************************************************************************)
(* Properties of the session                                               *)
(***************************************************************************)
LoadActions == {"coder", "prev", "next", "skip", "reload", "save"}

\* C20: after a handler whose poem load ended in a failure of fetch_html
\* or parse_poem, no exception has left the handler and the session holds
\* the error state of that poem (meta and text cleared, extraction_error
\* set); after a load that succeeded extraction_error is cleared and meta
\* and text are set; and right after a failed load the navigation is
\* rendered with a button that leads to another poem.
C20_LoadFailureIsPoemError ==
    /\ (last.action \in LoadActions /\ last.outcome \in {"fetch_raised", "parse_raised"})
           => /\ ~last.escaped
              /\ session.current_poem_meta = <<>>
              /\ session.current_poem_text = <<>>
              /\ session.extraction_error # <<>>
              /\ Rendered
              /\ session.current_index > 0 \/ session.current_index < Len(Poems) - 1
    /\ (last.action \in LoadActions /\ last.outcome = "ok")
           => /\ ~last.escaped
              /\ session.extraction_error = <<>>
              /\ session.current_poem_meta # <<>>
              /\ session.current_poem_text # <<>>

\* C20 witness: the load of the advance after a save failed in parse_poem
\* and left the error state of the next poem.
C20_Witness ==
    /\ last.action = "save"
    /\ last.outcome = "parse_raised"
    /\ session.extraction_error # <<>>
    /\ session.current_index = 1

\* C21: a Save whose save_record call raised is reported by the handler (no
\* exception leaves it) and leaves current_index, sentiment_x, sentiment_y
\* and the ticked tags and moods (of the full panel and of the stages) as
\* they were; no other poem is loaded.
C21_FailedSaveKeepsInput ==
    [][(last'.action = "save" /\ last'.save.how \in {"write_failed", "snapshot_failed"})
          => /\ ~last'.escaped
             /\ last'.outcome = "none"
             /\ session'.current_index = session.current_index
             /\ session'.sentiment_x = session.sentiment_x
             /\ session'.sentiment_y = session.sentiment_y
             /\ session'.selected_tags = session.selected_tags
             /\ session'.selected_moods = session.selected_moods
             /\ session'.staged_selected_tags = session.staged_selected_tags
             /\ session'.staged_selected_moods = session.staged_selected_moods
             /\ session'.current_poem_url = session.current_poem_url
             /\ session'.current_poem_meta = session.current_poem_meta
             /\ session'.current_poem_text = session.current_poem_text]_vars

\* C21 witness: a Save of the first poem failed after its line was appended;
\* the session still shows that poem with the tag, the mood and the chart
\* point the coder had chosen.
C21_Witness ==
    /\ last.action = "save"
    /\ last.save.how = "snapshot_failed"
    /\ session.current_index = 0
    /\ session.selected_tags = <<"love">>
    /\ session.selected_moods = <<"joy">>
    /\ <<session.sentiment_x, session.sentiment_y>> = <<1, 2>>

\* A Save of the staged panel: its record carries stage timings.
StagedSave == last.action = "save" /\ last.save.record[1].stage_timings # FieldDefault

\* C30: in staged timing mode the stage changes only to the next one of
\* poem, themes, mood, chart, notes, or back to poem with stage_timings
\* emptied; it is back at poem with stage_timings emptied after every Save
\* that returned and every change of current_poem_url; a Save is taken in
\* the notes stage only; and the stage timings and the staged tags and moods
\* of a saved record were all taken while the poem of the record was shown.
C30_StagesBelongToPoem ==
    /\ [][session.timing_method = "staged" =>
            /\ session'.current_stage # session.current_stage
                  => \/ \E i \in 1..(Len(Stages) - 1) :
                            /\ session.current_stage = Stages[i]
                            /\ session'.current_stage = Stages[i + 1]
                     \/ /\ session'.current_stage = "poem"
                        /\ session'.stage_timings = {}
            /\ (\/ last'.action = "save" /\ last'.save.how = "saved"
                \/ session'.current_poem_url # session.current_poem_url)
                  => /\ session'.current_stage = "poem"
                     /\ session'.stage_timings = {}
            /\ last'.action = "save" => session.current_stage = "notes"]_vars
    /\ [](StagedSave =>
            /\ last.save.stage = "notes"
            /\ \A e \in last.save.record[1].stage_timings[1] :
                   e.shown = {last.save.record[1].url}
            /\ last.save.tags_of = {last.save.record[1].url}
            /\ last.save.moods_of = {last.save.record[1].url})

\* C30 witness: the second poem was saved from the notes stage with the
\* times of all five stages, after the first one had been saved, and the
\* session is back at the poem stage without stage timings.
C30_Witness ==
    /\ StagedSave
    /\ last.save.how = "saved"
    /\ last.save.record[1].url = Poems[2]
    /\ Len(log) = 2
    /\ {e.stage : e \in last.save.record[1].stage_timings[1]}
           = {Stages[i] : i \in 1..Len(Stages)}
    /\ session.current_stage = "poem"
    /\ session.stage_timings = {}

\* C22: after the Coder ID field got a new non-blank value, current_index
\* is get_last_completed_index_for_coder of that value; and when the poems
\* the coder has completed are the first ones of the list, with none left
\* out, the index is that of a poem of the list, the first one the coder
\* has not completed.
C22_ResumeAtFirstUncompleted ==
    (last.action = "coder" /\ StripChars(session.coder_id, Whitespace) # <<>>) =>
        LET done == CompletedUrlsOf(ParsedRecords(CurrentLines),
                                    StripChars(session.coder_id, Whitespace))
            i == session.current_index
        IN /\ i = GetLastCompletedIndexForCoder(CurrentLines, session.coder_id)
           /\ (\E c \in 0..Len(Poems) : done = {Poems[j] : j \in 1..c})
                  => /\ i < Len(Poems)
                     /\ Poems[i + 1] \notin done
                     /\ \A j \in 1..i : Poems[j] \in done

\* C23: the record a Save has put into the log has extraction_ok true when
\* the poem it was saved for has text, and false when the parse of that
\* poem gave empty text.
C23_ExtractionOkReflectsText ==
    (last.action = "save" /\ last.save.how # "write_failed") =>
        /\ Last(log).dict = RecordDict(last.save.record[1])
        /\ Last(log).dict.extraction_ok <=> (last.save.text # << <<>> >>)

\* C24: with the poem list loaded, current_index is one of 0 .. n-1 after
\* every handler, and no handler's row lookup went out of range.
C24_IndexInRange ==
    session.loaded => /\ session.current_index \in 0..(Len(Poems) - 1)
                      /\ last.outcome # "index_error"

(***************************************************************************)
(* Properties of the fetcher                                               *)
(***************************************************************************)
CallPath == CachePath(call.url)

\* The cache entry of the running call's URL exists and can be read.
CacheReadable == cache[CallPath].exists /\ ~readFault

\* C1: once a call for a URL has returned content, a later
\* fetch_html(url, use_cache=True) returns exactly that content and issues
\* no network request.
C1_CachedFetchSameContent ==
    (pc = "returned" /\ call.use_cache /\ prev.valid /\ prev.url = call.url)
        => (result = Returned(prev.content) /\ requests = 0)

\* A status that is neither 2xx nor one of the transient 429, 403, 503.
OtherNon2xx(status) == ~(status >= 200 /\ status < 300) /\ status \notin {429, 403, 503}

\* C8: a response with a non-2xx status other than 429, 403, 503 makes the
\* call raise on that attempt, with no further request and no wait.
C8_OtherStatusRaisesAtOnce ==
    (requests > 0 /\ resp.kind = "response" /\ OtherNon2xx(resp.status))
        => (pc = "returned" /\ result = Raised /\ slept = 0)

\* C9: when the attempts of a call end without an HTTP 200 and a readable
\* cache entry for the URL exists, the call returns that entry instead of
\* raising, whatever the failure and whatever use_cache is.
C9_CacheBeforeFailure ==
    (pc = "returned" /\ requests > 0 /\ resp.status # 200 /\ CacheReadable)
        => result = Returned(ReadText(cache[CallPath].content))

\* C10: after an attempt that ended in a network or timeout exception, the
\* call has slept 1 second and goes on to the next attempt if the attempt
\* was not the final one; on the final attempt it has not slept and returns
\* the cache entry of the URL if that is readable, and raises otherwise.
C10_ExceptionRetryThenCache ==
    (requests > 0 /\ resp.kind = "exception")
        => IF requests < MaxRetries
           THEN pc = "attempt" /\ attempt = requests /\ slept = 1
                /\ waits # <<>> /\ waits[Len(waits)] = 1
           ELSE /\ pc = "returned"
                /\ slept = 0
                /\ result = IF CacheReadable
                            THEN Returned(ReadText(cache[CallPath].content))
                            ELSE Raised

\* C10 witness: three attempts ended in exceptions, the call slept 1 second
\* twice and returned the cache entry.
C10_Witness ==
    /\ pc = "returned"
    /\ resp.kind = "exception"
    /\ requests = MaxRetries
    /\ waits = <<1, 1>>
    /\ result.kind = "return"

\* C29: a call that returns the content of a cache file returns what an
\* earlier call for the same URL downloaded: the file it reads was written
\* by a call for that URL.
C29_CacheHitOfSameUrl ==
    (pc = "returned" /\ result.kind = "return" /\ requests = 0)
        => cache[CallPath].url = call.url

\* C11: after a 429, 403 or 503 response at 0-based attempt index a, the
\* call has slept 2^a + 1 seconds and goes on to the next attempt if the
\* attempt was not the final one, and has slept nothing after the final one;
\* a call that got 200 on its third request after two such responses has
\* waited 2 s, then 3 s.
C11_BackoffWaits ==
    /\ (requests > 0 /\ resp.kind = "response" /\ resp.status \in {429, 403, 503})
           => IF requests < 3
              THEN /\ pc = "attempt"
                   /\ slept = 2 ^ (requests - 1) + 1
                   /\ waits # <<>> /\ waits[Len(waits)] = slept
              ELSE slept = 0
    /\ (requests = 3 /\ resp.status = 200 /\ Len(waits) = 2 /\ waits[1] # 1 /\ waits[2] # 1)
           => (waits = <<2, 3>> /\ result = Returned(resp.text))

\* C11 witness: 429, 429, 200: the call returned after waits of 2 s and 3 s.
C11_Witness ==
    /\ pc = "returned"
    /\ requests = 3
    /\ resp.status = 200
    /\ waits = <<2, 3>>
    /\ result.kind = "return"

\* C12: a call never issues more than 3 network requests, after the third
\* it has returned content or raised, and every call that entered the retry
\* loop ends, returning content or raising.
C12_FetchTerminates ==
    /\ [](requests <= 3)
    /\ [](requests = 3 => pc = "returned")
    /\ [](pc = "returned" => result.kind \in {"return", "raise"})
    /\ ((pc = "attempt") ~> (pc = "returned"))

\* C12 witness: a call has used all three requests and raised.
C12_Witness == pc = "returned" /\ requests = 3 /\ result.kind = "raise"

====
